---- MODULE Spec2Model ----
(***************************************************************************)
(* Lifecycle of container.Container (src/container/Container.go): the      *)
(* Container struct, its operations Configure, AddFactory, Open, Close,    *)
(* IsOpen and Info, and the default factory bundle                         *)
(* (src/v3/build/DefaultContainerFactory.go).                              *)
(*                                                                         *)
(* The reference registry (refer.ContainerReferences) and the composite    *)
(* factory are collaborators whose code is not part of the sources; they   *)
(* are modelled from the contract the specification gives for them.        *)
(* Components, the parent of a nested container and the factories can      *)
(* fail: every call the container issues to them takes its outcome         *)
(* (success, returned error, panic) from a plan chosen by the environment. *)
(***************************************************************************)
EXTENDS Naturals, Sequences, FiniteSets, TLC

VARIABLES
    c,        \* the Container struct
    created,  \* number of registries constructed so far (identity of a registry)
    lastOp,   \* the operation that ran last
    plan,     \* what the environment decided for the calls of that operation
    ret,      \* how the last operation ended and the error it returned
    events,   \* calls the last operation issued to components and to the parent
    logged,   \* calls the last operation issued to c.logger
    configured  \* the argument of the last Configure call, and whether that call
                \* replaced a different, non-empty configuration

vars == <<c, created, lastOp, plan, ret, events, logged, configured>>

-----------------------------------------------------------------------------
(* Bounds *)

MaxSections == 2   \* longest configuration
MaxCycles == 2     \* registries constructed in one behaviour
MaxAdded == 3      \* factories a caller adds to the default bundle

-----------------------------------------------------------------------------
(* Values *)

\* What a configuration section asks for:
\*   "svc"     a component with Open and Close, built by a default factory
\*   "info"    a ContextInfo component (pip-services:context-info:...)
\*   "custom"  a component with Open and Close that no default factory builds: the
\*             section resolves only once a factory for it was added
Kinds == {"svc", "info", "custom"}

Configs == UNION {[1..n -> Kinds] : n \in 0..MaxSections}

Err(kind, at, idx) == [kind |-> kind, at |-> at, idx |-> idx]

NoErr == Err("nil", "", 0)

Returned(err) == [how |-> "return", err |-> err]

Panicked(err) == [how |-> "panic", err |-> err]

LogEntry(level, err, msg) == [level |-> level, err |-> err, msg |-> msg]

Event(op, idx) == [op |-> op, idx |-> idx]

\* The identity of the ContextInfo made by NewEmptyContainer.
OwnInfo == <<0, 0>>

\* c.references = nil
NilReferences == [id |-> 0, items |-> <<>>]

Reverse(s) == [i \in 1..Len(s) |-> s[Len(s) + 1 - i]]

\* Position of the first element of s equal to x, 0 when there is none.
IndexOf(s, x) ==
    IF \E i \in 1..Len(s) : s[i] = x
    THEN CHOOSE i \in 1..Len(s) : s[i] = x /\ \A j \in 1..(i - 1) : s[j] # x
    ELSE 0

-----------------------------------------------------------------------------
(* The factories *)

NewDefaultContainerFactory ==
    <<"info", "logger", "counters", "config-reader", "cache",
      "credential-store", "discovery", "logger", "test">>

\* The factories a caller has: "custom", and "shadow" that builds what "custom"
\* builds.
FactoryNames == {"custom", "shadow"}

FactoryLists == UNION {[1..n -> FactoryNames] : n \in 0..MaxAdded}

\* The given factories registered ahead of the default ones.
DefaultContainerFactoryAfterFactories(factories) == factories \o NewDefaultContainerFactory

NewDefaultContainerFactoryFromFactories(factories) == NewDefaultContainerFactory \o factories

\* Whether sub-factory f declares it can build a section of the kind: a factory
\* builds the kind it is named after, the test factory builds "svc".
CanCreate(f, kind) ==
    \/ f = kind
    \/ f = "test" /\ kind = "svc"
    \/ f = "shadow" /\ kind = "custom"

\* Index of the sub-factory that builds the kind, 0 when none can.
FindFactory(factories, kind) ==
    IF \E i \in 1..Len(factories) : CanCreate(factories[i], kind)
    THEN CHOOSE i \in 1..Len(factories) :
            /\ CanCreate(factories[i], kind)
            /\ \A j \in 1..(i - 1) : ~CanCreate(factories[j], kind)
    ELSE 0

-----------------------------------------------------------------------------
(* The reference registry *)

Item(kind, sec, by, obj) ==
    [kind |-> kind, sec |-> sec, by |-> by, obj |-> obj, opened |-> FALSE]

Openable(it) == it.kind \in {"svc", "custom"}

Closeable(it) == it.kind \in {"svc", "custom"}

\* The sections (by position in the configuration) of the openable items, and of
\* the closeable items, in registration order.
OpenableSecs(items) ==
    LET sel == SelectSeq(items, Openable)
    IN  [i \in 1..Len(sel) |-> sel[i].sec]

CloseableSecs(items) ==
    LET sel == SelectSeq(items, Closeable)
    IN  [i \in 1..Len(sel) |-> sel[i].sec]

Range(s) == {s[i] : i \in 1..Len(s)}

\* references.Put
Put(items, it) == Append(items, it)

\* references.GetOneOptional for a context-info locator, followed by the type
\* assertion to *info.ContextInfo: the first matching entry, found = FALSE when
\* there is none.
GetOneOptionalInfo(items) ==
    LET sel == SelectSeq(items, LAMBDA it : it.kind = "info")
    IN  IF Len(sel) = 0 THEN [found |-> FALSE, obj |-> OwnInfo]
        ELSE [found |-> TRUE, obj |-> sel[1].obj]

\* The first section no factory can build, 0 when every section resolves.
FirstUnresolved(factories, config) ==
    IF \E i \in 1..Len(config) : FindFactory(factories, config[i]) = 0
    THEN CHOOSE i \in 1..Len(config) :
            /\ FindFactory(factories, config[i]) = 0
            /\ \A j \in 1..(i - 1) : FindFactory(factories, config[j]) # 0
    ELSE 0

\* PutFromConfig, given the first unresolved section (bad): the sections before the
\* one that stops the population are built and appended.
PutSections(refs, factories, config, ctor, bad) ==
    [refs |-> [refs EXCEPT !.items = @ \o
                [i \in 1..((IF ctor # 0 /\ (bad = 0 \/ ctor < bad) THEN ctor
                            ELSE IF bad # 0 THEN bad ELSE Len(config) + 1) - 1) |->
                    Item(config[i], i, FindFactory(factories, config[i]), <<refs.id, i>>)]],
     events |-> [i \in 1..(IF ctor # 0 /\ (bad = 0 \/ ctor < bad) THEN ctor
                           ELSE IF bad # 0 THEN bad - 1 ELSE Len(config)) |->
                    Event("create", i)],
     ret |-> IF ctor # 0 /\ (bad = 0 \/ ctor < bad)
             THEN Panicked(Err("RecoveredFault", "create", ctor))
             ELSE IF bad # 0 THEN Returned(Err("BuildError", "create", bad))
             ELSE Returned(NoErr)]

\* references.PutFromConfig: the sections are resolved in order and appended; the
\* first unresolved section aborts with a build error. ctor is the section whose
\* construction panics (0: none).
PutFromConfig(refs, factories, config, ctor) ==
    PutSections(refs, factories, config, ctor, FirstUnresolved(factories, config))

\* The calls a phase issues over the sections in order when the call of section
\* at ends it (0: none does), and the sections whose call completed.
Attempted(order, at) ==
    IF IndexOf(order, at) = 0 THEN order ELSE SubSeq(order, 1, IndexOf(order, at))

Completed(order, at) ==
    IF IndexOf(order, at) = 0 THEN Range(order)
    ELSE {order[i] : i \in 1..(IndexOf(order, at) - 1)}

Calls(op, secs) == [i \in 1..Len(secs) |-> Event(op, secs[i])]

Mark(items, secs, flag) ==
    [i \in 1..Len(items) |->
        IF items[i].sec \in secs THEN [items[i] EXCEPT !.opened = flag] ELSE items[i]]

OpenInOrder(refs, order, failAt, failHow) ==
    [refs |-> [refs EXCEPT !.items = Mark(@, Completed(order, failAt), TRUE)],
     events |-> Calls("open", Attempted(order, failAt)),
     ret |-> IF failAt \notin Range(order) THEN Returned(NoErr)
             ELSE IF failHow = "panic"
                  THEN Panicked(Err("RecoveredFault", "open", failAt))
                  ELSE Returned(Err("ComponentError", "open", failAt))]

\* references.Open: every openable component is opened in registration order; the
\* first failure (a returned error or a panic, of section failAt) ends the phase.
ReferencesOpen(refs, failAt, failHow) ==
    OpenInOrder(refs, OpenableSecs(refs.items), failAt, failHow)

CloseInOrder(refs, order, errAt, panicAt) ==
    [refs |-> [refs EXCEPT !.items = Mark(@, Completed(order, panicAt), FALSE)],
     events |-> Calls("close", Attempted(order, panicAt)),
     ret |-> IF panicAt \in Range(order)
             THEN Panicked(Err("RecoveredFault", "close", panicAt))
             ELSE IF errAt \in Range(order)
                  THEN Returned(Err("ComponentError", "close", errAt))
                  ELSE Returned(NoErr)]

\* references.Close: every closeable component is closed in reverse registration
\* order; returned errors are collected and reported once all are closed (errAt:
\* the first section, in that order, whose Close returns an error; 0: none); a
\* panic (of section panicAt; 0: none) ends the phase.
ReferencesClose(refs, errAt, panicAt) ==
    CloseInOrder(refs, Reverse(CloseableSecs(refs.items)), errAt, panicAt)

-----------------------------------------------------------------------------
(* The container *)

\* What the environment decides for one call of Open or Close:
\*   ctor       the section whose construction panics (0: none)
\*   set        the parent's SetReferences panics
\*   openAt     the section whose Open fails (0: none), openHow: "err" or "panic"
\*   unset      the parent's UnsetReferences panics
\*   closeErr   the first section, in close order, whose Close returns an error
\*   closeAt    the section whose Close panics (0: none)
NoPlan ==
    [ctor |-> 0, set |-> FALSE, openAt |-> 0, openHow |-> "err",
     unset |-> FALSE, closeErr |-> 0, closeAt |-> 0]

Result(cc, r, ev, lg) == [c |-> cc, ret |-> r, events |-> ev, logged |-> lg]

NewEmptyContainer ==
    [logger |-> "null",
     factories |-> NewDefaultContainerFactory,
     info |-> OwnInfo,
     config |-> <<>>,
     references |-> NilReferences,
     referenceable |-> FALSE,
     unreferenceable |-> FALSE]

\* parentUnsets: the parent also implements IUnreferenceable.
InheritContainer(parentUnsets) ==
    [NewEmptyContainer EXCEPT !.referenceable = TRUE,
                              !.unreferenceable = parentUnsets]

IsOpen(cc) == cc.references.id # 0

\* Configure with the sections conf merged into the stored configuration.
DoConfigureMerged(cc, conf) == [cc EXCEPT !.config = @ \o conf]

\* Configure: the sections read from conf replace the stored configuration.
DoConfigure(cc, conf) == [cc EXCEPT !.config = conf]

\* AddFactory that drops the factory.
DoAddFactoryDropped(cc, factory) == cc

\* AddFactory: c.factories.Add(factory).
DoAddFactory(cc, factory) == [cc EXCEPT !.factories = Append(@, factory)]

Info(cc) == cc.info

\* initReferences, given the result of its lookup of a ContextInfo.
SeedReferences(cc, existingInfo) ==
    [cc EXCEPT !.info = IF existingInfo.found THEN existingInfo.obj ELSE @,
               !.references.items =
                    Put(IF existingInfo.found THEN @ ELSE Put(@, Item("info", 0, 0, cc.info)),
                        Item("factory", 0, 0, <<cc.references.id, 0>>))]

\* initReferences without the registration of the container's ContextInfo.
initReferencesFactoryOnly(cc) ==
    [cc EXCEPT !.references.items = Put(@, Item("factory", 0, 0, <<cc.references.id, 0>>))]

initReferences(cc) == SeedReferences(cc, GetOneOptionalInfo(cc.references.items))

StoppingTrace == LogEntry("Trace", NoErr, "Stopping container")

StartingTrace == LogEntry("Trace", NoErr, "Starting container.")

UnsetCall(cc) == IF cc.unreferenceable THEN <<Event("unsetRefs", 0)>> ELSE <<>>

\* Open without the call of the parent's SetReferences.
SetCallSkipped(cc) == <<>>

SetCall(cc) == IF cc.referenceable THEN <<Event("setRefs", 0)>> ELSE <<>>

\* Open calls c.Close.
CloseCall == <<Event("Close", 0)>>

\* The deferred function of Close: the fault is logged; Close has no named result,
\* so a recovered call returns nil.
CloseRecovered(cc, fault, ev) ==
    Result(cc, Returned(NoErr), ev,
           <<StoppingTrace, LogEntry("Error", fault, "Failed to stop container")>>)

\* Close that drops the registry without running its close phase.
CloseReferencesDropOnly(cc, rc) ==
    Result([cc EXCEPT !.references = NilReferences], Returned(NoErr), UnsetCall(cc),
           <<StoppingTrace, LogEntry("Info", NoErr, "Container stopped")>>)

\* Close, from references.Close on; rc is what references.Close did.
CloseReferences(cc, rc) ==
    IF rc.ret.how = "panic"
    THEN CloseRecovered([cc EXCEPT !.references = rc.refs], rc.ret.err,
                        UnsetCall(cc) \o rc.events)
    ELSE Result([cc EXCEPT !.references = NilReferences], rc.ret,
                UnsetCall(cc) \o rc.events,
                <<StoppingTrace,
                  IF rc.ret.err = NoErr
                  THEN LogEntry("Info", NoErr, "Container stopped")
                  ELSE LogEntry("Error", rc.ret.err, "Failed to stop container")>>)

\* Close without the check that the container was opened.
DoCloseUnchecked(cc, p) ==
    IF cc.unreferenceable /\ p.unset
    THEN CloseRecovered(cc, Err("RecoveredFault", "unsetRefs", 0), UnsetCall(cc))
    ELSE CloseReferences(cc, ReferencesClose(cc.references, p.closeErr, p.closeAt))

DoClose(cc, p) ==
    IF cc.references.id = 0
    THEN Result(cc, Returned(NoErr), <<>>, <<>>)
    ELSE IF cc.unreferenceable /\ p.unset
    THEN CloseRecovered(cc, Err("RecoveredFault", "unsetRefs", 0), UnsetCall(cc))
    ELSE CloseReferences(cc, ReferencesClose(cc.references, p.closeErr, p.closeAt))

\* The deferred function of Open assigning the fault to a variable that shadows
\* the result: Open returns nil.
RecoveredShadowed(fault, cl, ev, lg) ==
    Result(cl.c, Returned(NoErr), ev \o cl.events,
           lg \o <<LogEntry("Error", fault, "Failed to start container")>> \o cl.logged)

\* What Open returns once its deferred function has recovered the fault, logged it
\* and called Close (cl is what that Close did); a panic leaving that Close would
\* leave Open too.
Recovered(fault, cl, ev, lg) ==
    Result(cl.c,
           IF cl.ret.how = "panic" THEN cl.ret ELSE Returned(fault),
           ev \o cl.events,
           lg \o <<LogEntry("Error", fault, "Failed to start container")>> \o cl.logged)

\* The deferred function of Open.
OpenRecovered(cc, fault, ev, lg, p) ==
    Recovered(fault, DoClose(cc, p), ev \o CloseCall, lg)

\* Open returning what the rollback Close returned.
OpenFailedAsClose(err, cl, ev, lg, p) ==
    Result(cl.c, cl.ret, ev \o cl.events, lg \o cl.logged)

\* Open after a component's Open returned err: the error was logged and Close
\* was called (cl is what that Close did).
OpenFailed(err, cl, ev, lg, p) ==
    IF cl.ret.how = "panic"
    THEN OpenRecovered(cl.c, cl.ret.err, ev \o cl.events, lg \o cl.logged, p)
    ELSE Result(cl.c, Returned(err), ev \o cl.events, lg \o cl.logged)

\* Open, from references.Open on; ro is what references.Open did.
OpenReferences(cc, ro, ev, p) ==
    IF ro.ret.how = "panic"
    THEN OpenRecovered([cc EXCEPT !.references = ro.refs], ro.ret.err,
                       ev \o ro.events, <<StartingTrace>>, p)
    ELSE IF ro.ret.err = NoErr
    THEN Result([cc EXCEPT !.references = ro.refs], ro.ret, ev \o ro.events,
                <<StartingTrace, LogEntry("Info", NoErr, "Container started")>>)
    ELSE OpenFailed(ro.ret.err, DoClose([cc EXCEPT !.references = ro.refs], p),
                    ev \o ro.events \o CloseCall,
                    <<StartingTrace, LogEntry("Fatal", ro.ret.err, "Failed to start container")>>,
                    p)

\* Open adopts the ContextInfo found in the registry and takes its logger from the
\* registry.
RefreshInfoAndLogger(cc, found) ==
    [cc EXCEPT !.info = IF found.found THEN found.obj ELSE @,
               !.logger = "composite"]

\* Open after the population; pf is what PutFromConfig did.
OpenPopulated(cc, pf, p) ==
    IF pf.ret.how = "panic"
    THEN OpenRecovered([cc EXCEPT !.references = pf.refs], pf.ret.err, pf.events,
                       <<StartingTrace>>, p)
    ELSE IF pf.ret.err # NoErr
    THEN Result([cc EXCEPT !.references = pf.refs], pf.ret, pf.events, <<StartingTrace>>)
    ELSE IF cc.referenceable /\ p.set
    THEN OpenRecovered([cc EXCEPT !.references = pf.refs],
                       Err("RecoveredFault", "setRefs", 0),
                       pf.events \o SetCall(cc), <<StartingTrace>>, p)
    ELSE OpenReferences(
            RefreshInfoAndLogger([cc EXCEPT !.references = pf.refs],
                                 GetOneOptionalInfo(pf.refs.items)),
            ReferencesOpen(pf.refs, p.openAt, p.openHow),
            pf.events \o SetCall(cc), p)

\* Open, from the construction of the registry on (c.references is nil).
OpenClosed(cc, p) ==
    OpenPopulated(cc, PutFromConfig(cc.references, cc.factories, cc.config, p.ctor), p)

\* Open without the check that the container is closed.
DoOpenUnchecked(cc, id, p) ==
    OpenClosed(initReferences([cc EXCEPT !.references = [id |-> id, items |-> <<>>]]), p)

\* Open; id names the registry it constructs.
DoOpen(cc, id, p) ==
    IF cc.references.id # 0
    THEN Result(cc, Returned(Err("InvalidState", "ALREADY_OPENED", 0)), <<>>, <<>>)
    ELSE OpenClosed(initReferences([cc EXCEPT !.references = [id |-> id, items |-> <<>>]]), p)

-----------------------------------------------------------------------------
(* The environment's choices *)

\* The sections of the configuration that Open would build.
Buildable(cc) ==
    {i \in 1..Len(cc.config) :
        \A j \in 1..i : FindFactory(cc.factories, cc.config[j]) # 0}

\* Sections whose component has Open and Close.
Services(config, secs) == {i \in secs : config[i] \in {"svc", "custom"}}

\* The plans that extend p with what a Close of the components of the sections
\* in closing can meet: nothing, a panic of UnsetReferences, a panic of one
\* component's Close, or an error returned by one.
WithClose(p, unref, closing) ==
    {p}
    \cup (IF unref THEN {[p EXCEPT !.unset = TRUE]} ELSE {})
    \cup {[p EXCEPT !.closeAt = i] : i \in closing}
    \cup {[p EXCEPT !.closeErr = i] : i \in closing}

\* The faults an Open that builds the sections secs, with the services svcs, can
\* meet: a panic while a section is built, a panic of the parent's SetReferences,
\* a failure of one component's Open.
OpenFaults(cc, secs, svcs) ==
    {[NoPlan EXCEPT !.ctor = i] : i \in secs}
    \cup (IF cc.referenceable /\ secs = 1..Len(cc.config)
          THEN {[NoPlan EXCEPT !.set = TRUE]} ELSE {})
    \cup (IF secs = 1..Len(cc.config)
          THEN {[NoPlan EXCEPT !.openAt = i, !.openHow = h] :
                    i \in svcs, h \in {"err", "panic"}}
          ELSE {})

\* What can happen to an Open of a closed container: no fault, or one fault and
\* what the rollback Close meets (which closes what was built before the fault).
OpenPlans(cc) ==
    {NoPlan}
    \cup UNION {WithClose(f, cc.unreferenceable,
                          {s \in Services(cc.config, Buildable(cc)) :
                                f.ctor = 0 \/ s < f.ctor}) :
                f \in OpenFaults(cc, Buildable(cc), Services(cc.config, Buildable(cc)))}

\* What can happen to a Close: nothing when the container is closed.
ClosePlans(cc) ==
    IF IsOpen(cc)
    THEN WithClose(NoPlan, cc.unreferenceable,
                   {it.sec : it \in {x \in Range(cc.references.items) : Closeable(x)}})
    ELSE {NoPlan}

-----------------------------------------------------------------------------
(* The state machine *)

Init ==
    /\ c \in {NewEmptyContainer, InheritContainer(FALSE), InheritContainer(TRUE)}
    /\ created = 0
    /\ lastOp = "New"
    /\ plan = NoPlan
    /\ ret = Returned(NoErr)
    /\ events = <<>>
    /\ logged = <<>>
    /\ configured = [conf |-> <<>>, replaced |-> FALSE]

\* The operation op ran under plan p and did r.
Ran(op, p, r) ==
    /\ lastOp' = op
    /\ plan' = p
    /\ c' = r.c
    /\ ret' = r.ret
    /\ events' = r.events
    /\ logged' = r.logged

\* The configuration is stored while the container is closed: neither Close nor an
\* Open of an opened container reads it.
Configure ==
    \E conf \in Configs :
        /\ ~IsOpen(c)
        /\ Ran("Configure", NoPlan, Result(DoConfigure(c, conf), Returned(NoErr), <<>>, <<>>))
        /\ configured' = [conf |-> conf, replaced |-> c.config # <<>> /\ c.config # conf]
        /\ UNCHANGED created

\* The factories a caller adds; each is added once.
AddableFactories == {"custom"}

AddFactory ==
    \E factory \in AddableFactories :
        /\ factory \notin Range(c.factories)
        /\ Ran("AddFactory", NoPlan,
               Result(DoAddFactory(c, factory), Returned(NoErr), <<>>, <<>>))
        /\ UNCHANGED <<created, configured>>

Open ==
    /\ IsOpen(c) \/ created < MaxCycles
    /\ \E p \in IF IsOpen(c) THEN {NoPlan} ELSE OpenPlans(c) :
            Ran("Open", p, DoOpen(c, created + 1, p))
    /\ created' = IF IsOpen(c) THEN created ELSE created + 1
    /\ UNCHANGED configured

Close ==
    /\ \E p \in ClosePlans(c) : Ran("Close", p, DoClose(c, p))
    /\ UNCHANGED <<created, configured>>

Next ==
    \/ Configure
    \/ AddFactory
    \/ Open
    \/ Close

Spec == Init /\ [][Next]_vars

-----------------------------------------------------------------------------
(* The factory bundle alone: it is made from a caller's factories, factories are
   added to it, and sections are resolved against it. The bundle is c.factories;
   nothing else of the container takes part. *)

\* What a section to resolve asks for: the kinds a configuration holds, two kinds
\* the default factories build, and one no factory builds.
Locators == Kinds \cup {"logger", "cache", "unknown"}

\* The composite factory resolving a section of the kind: the sub-factory that
\* builds it, or the build error.
Resolve(cc, kind) ==
    Result(cc, IF FindFactory(cc.factories, kind) = 0
               THEN Returned(Err("BuildError", "create", 0)) ELSE Returned(NoErr),
           <<Event(kind, FindFactory(cc.factories, kind))>>, <<>>)

\* The bundle is made by NewDefaultContainerFactoryFromFactories; events holds the
\* factories passed.
BundleFromFactories ==
    \E factories \in FactoryLists :
        /\ lastOp = "New"
        /\ Ran("NewDefaultContainerFactoryFromFactories", NoPlan,
               Result([c EXCEPT !.factories = NewDefaultContainerFactoryFromFactories(factories)],
                      Returned(NoErr), Calls("arg", factories), <<>>))
        /\ UNCHANGED <<created, configured>>

\* AddFactory with any of the caller's factories; events holds the factory passed.
AddAnyFactory ==
    \E factory \in FactoryNames :
        /\ Len(c.factories) < Len(NewDefaultContainerFactory) + MaxAdded
        /\ Ran("AddFactory", NoPlan,
               Result(DoAddFactory(c, factory), Returned(NoErr), <<Event("arg", factory)>>, <<>>))
        /\ UNCHANGED <<created, configured>>

\* A section is resolved; events holds its kind and the sub-factory that builds it.
Create ==
    \E kind \in Locators :
        /\ Ran("Create", NoPlan, Resolve(c, kind))
        /\ UNCHANGED <<created, configured>>

FactoryInit ==
    /\ c = NewEmptyContainer
    /\ created = 0
    /\ lastOp = "New"
    /\ plan = NoPlan
    /\ ret = Returned(NoErr)
    /\ events = <<>>
    /\ logged = <<>>
    /\ configured = [conf |-> <<>>, replaced |-> FALSE]

FactoryNext ==
    \/ BundleFromFactories
    \/ AddAnyFactory
    \/ Create

FactorySpec == FactoryInit /\ [][FactoryNext]_vars

-----------------------------------------------------------------------------
(* Properties *)

\* The sections opened, and the sections closed, by the calls ev, in call order.
Opens(ev) ==
    LET sel == SelectSeq(ev, LAMBDA e : e.op = "open")
    IN  [i \in 1..Len(sel) |-> sel[i].idx]

Closes(ev) ==
    LET sel == SelectSeq(ev, LAMBDA e : e.op = "close")
    IN  [i \in 1..Len(sel) |-> sel[i].idx]

IsPrefix(s, t) == Len(s) <= Len(t) /\ \A i \in 1..Len(s) : s[i] = t[i]

Ascending(s) == \A i, j \in 1..Len(s) : i < j => s[i] < s[j]

Descending(s) == \A i, j \in 1..Len(s) : i < j => s[i] > s[j]

\* The fault the plan p raises in the sequence of Open, NoErr when it raises none.
OpenFault(p) ==
    IF p.ctor # 0 THEN Err("RecoveredFault", "create", p.ctor)
    ELSE IF p.set THEN Err("RecoveredFault", "setRefs", 0)
    ELSE IF p.openAt # 0 /\ p.openHow = "panic" THEN Err("RecoveredFault", "open", p.openAt)
    ELSE NoErr

\* The plan p raises a fault in the sequence of Close.
CloseFaults(p) == p.unset \/ p.closeAt # 0

\* The log holds an entry of a severe level for the error.
LoggedSeverely(err) ==
    \E i \in 1..Len(logged) :
        logged[i].level \in {"Error", "Fatal"} /\ logged[i].err = err

\* C1: Open of an opened container returns InvalidState(ALREADY_OPENED) and does
\* nothing else: the Container (registry, held components and their status,
\* configuration, logger, ContextInfo) is unchanged, no call is issued to a
\* component or to the parent, and nothing is logged.
C1_OpenOfOpenedIsRejected ==
    [][(IsOpen(c) /\ lastOp' = "Open") =>
            /\ ret' = Returned(Err("InvalidState", "ALREADY_OPENED", 0))
            /\ c' = c
            /\ events' = <<>>
            /\ logged' = <<>>]_vars

\* C1 witness: Open was rejected on a container that holds an opened component.
C1_Witness ==
    /\ lastOp = "Open"
    /\ ret.err.kind = "InvalidState"
    /\ \E i \in 1..Len(c.references.items) : c.references.items[i].opened

\* C2: Close of a closed container returns nil and does nothing: no component is
\* closed, UnsetReferences is not called, nothing is logged and the container stays
\* closed (so a Close after it finds the same state).
C2_CloseOfClosedIsNoOp ==
    [][(~IsOpen(c) /\ lastOp' = "Close") =>
            /\ ret' = Returned(NoErr)
            /\ c' = c
            /\ events' = <<>>
            /\ logged' = <<>>]_vars

\* C2 witness: Close ran on a closed nested container that had been opened before.
C2_Witness ==
    /\ lastOp = "Close"
    /\ ~IsOpen(c)
    /\ logged = <<>>
    /\ c.unreferenceable
    /\ created > 0

\* C3 (as claimed): when a section of the configuration cannot be resolved, Open
\* returns the build error and the container is closed.
C3_BuildErrorLeavesClosed ==
    (lastOp = "Open" /\ ret.err.kind = "BuildError") => ~IsOpen(c)

\* C4 (as claimed): after any Close, IsOpen() is false.
C4_ClosedAfterClose ==
    lastOp = "Close" => ~IsOpen(c)

\* C5: after an Open that returns nil, IsOpen() is true, Info() is a ContextInfo
\* held in the registry, and no held component was opened more than once.
C5_SuccessfulOpen ==
    (lastOp = "Open" /\ ret = Returned(NoErr)) =>
        /\ IsOpen(c)
        /\ \E i \in 1..Len(c.references.items) :
                /\ c.references.items[i].kind = "info"
                /\ c.references.items[i].obj = Info(c)
        /\ \A i \in 1..Len(c.references.items) :
                Cardinality({k \in 1..Len(events) :
                                events[k] = Event("open", c.references.items[i].sec)}) <= 1

\* C5 witness: an Open of two components returned nil.
C5_Witness ==
    /\ lastOp = "Open"
    /\ ret = Returned(NoErr)
    /\ Opens(events) = <<1, 2>>

\* C6: an Open opens components in the order they were appended to the registry
\* (all of them when it returns nil), and a Close of an opened container closes
\* them in the reverse of that order (all of them unless a fault interrupts it);
\* the order of the registry's entries does not change while it is held.
C6_OpenOrderCloseReverse ==
    [][/\ Ascending(Opens(events')) /\ Descending(Closes(events'))
       /\ (lastOp' = "Open" /\ ret' = Returned(NoErr)) =>
                Opens(events') = OpenableSecs(c'.references.items)
       /\ (lastOp' = "Close" /\ IsOpen(c)) =>
            /\ IsPrefix(Closes(events'), Reverse(CloseableSecs(c.references.items)))
            /\ ~CloseFaults(plan') =>
                    Closes(events') = Reverse(CloseableSecs(c.references.items))
       /\ (IsOpen(c) /\ c'.references.id = c.references.id) =>
                OpenableSecs(c'.references.items) = OpenableSecs(c.references.items)
      ]_vars

\* C6 witness: a Close closed the second component, then the first.
C6_Witness ==
    /\ lastOp = "Close"
    /\ events = <<Event("close", 2), Event("close", 1)>>

\* C7: a fault raised in the sequence of Open (population, parent wiring, a
\* component's Open) does not leave Open: Open returns the error made from it, the
\* error is logged, and Close is called afterwards, also when that Close faults.
C7_OpenFaultIsRecovered ==
    (lastOp = "Open" /\ OpenFault(plan) # NoErr) =>
        /\ ret = Returned(OpenFault(plan))
        /\ \E i \in 1..Len(logged) :
                /\ logged[i] = LogEntry("Error", OpenFault(plan), "Failed to start container")
                /\ \E j \in (i + 1)..Len(logged) : logged[j] = StoppingTrace
        /\ \E k \in 1..Len(events) : events[k] = Event("Close", 0)

\* C7 witness: a component's Open panicked and the rollback Close faulted too.
C7_Witness ==
    /\ lastOp = "Open"
    /\ plan.openAt # 0 /\ plan.openHow = "panic"
    /\ CloseFaults(plan)
    /\ ret.err.kind = "RecoveredFault"

\* C8 (as claimed): when a fault is raised during the parent unwiring or the
\* registry's close phase of a Close, the container is closed when Close returns.
C8_FaultingCloseLeavesClosed ==
    (lastOp = "Close" /\ CloseFaults(plan)) => ~IsOpen(c)

\* C9 (as claimed): a fault raised in a component's Close or in UnsetReferences
\* does not leave Close, and Close returns a non-nil error describing it.
C9_CloseFaultIsReturned ==
    (lastOp = "Close" /\ CloseFaults(plan)) =>
        ret.how = "return" /\ ret.err.kind = "RecoveredFault"

\* C10 (as claimed): an error Open returns from its sequence (build error, error of
\* a component's Open, recovered fault) has a log entry of a severe level.
C10_OpenErrorsAreLogged ==
    (lastOp = "Open" /\ ret.err.kind \in {"BuildError", "ComponentError", "RecoveredFault"}) =>
        LoggedSeverely(ret.err)

\* The sections built by the calls ev, in call order.
Creates(ev) ==
    LET sel == SelectSeq(ev, LAMBDA e : e.op = "create")
    IN  [i \in 1..Len(sel) |-> sel[i].idx]

\* The kinds of the components the registry holds for sections of the
\* configuration, in registration order.
BuiltKinds(items) ==
    LET sel == SelectSeq(items, LAMBDA it : it.sec # 0)
    IN  [i \in 1..Len(sel) |-> sel[i].kind]

\* C11: an Open of a closed container builds and opens sections of the last
\* Configure call only, each as that call describes it, in that call's order, and
\* all of them when the population succeeds: the sections of an earlier call are
\* neither merged in nor built.
C11_LastConfigureWins ==
    (lastOp = "Open" /\ ret.err.kind # "InvalidState") =>
        /\ IsPrefix(Creates(events), [i \in 1..Len(configured.conf) |-> i])
        /\ Range(Opens(events)) \subseteq 1..Len(configured.conf)
        /\ IsPrefix(BuiltKinds(c.references.items), configured.conf)
        /\ (ret = Returned(NoErr)) =>
                /\ BuiltKinds(c.references.items) = configured.conf
                /\ Len(Creates(events)) = Len(configured.conf)

\* C11 witness: the last Configure replaced a longer configuration of other kinds,
\* and the Open after it succeeded.
C11_Witness ==
    /\ lastOp = "Open"
    /\ ret = Returned(NoErr)
    /\ configured.replaced
    /\ configured.conf = <<"svc">>
    /\ Creates(events) = <<1>>

\* C12: AddFactory only appends the factory to c.factories: it changes nothing
\* else of the Container (the registry, the held components and their opened
\* status are unchanged), calls no component and logs nothing; and an Open of a
\* closed container to which the factory was added resolves the sections only
\* that factory builds, with that factory.
C12_AddFactoryOnlyAppends ==
    [][/\ (lastOp' = "AddFactory") =>
            /\ \E factory \in AddableFactories : c'.factories = Append(c.factories, factory)
            /\ c' = [c EXCEPT !.factories = c'.factories]
            /\ ret' = Returned(NoErr)
            /\ events' = <<>>
            /\ logged' = <<>>
       /\ (lastOp' = "Open" /\ ~IsOpen(c) /\ "custom" \in Range(c.factories)) =>
            /\ ret'.err.kind # "BuildError"
            /\ \A i \in 1..Len(c'.references.items) :
                    c'.references.items[i].kind = "custom" =>
                        c.factories[c'.references.items[i].by] = "custom"
      ]_vars

\* C12 witness: a factory was added to a container that holds an opened component.
C12_Witness ==
    /\ lastOp = "AddFactory"
    /\ IsOpen(c)
    /\ "custom" \in Range(c.factories)
    /\ \E i \in 1..Len(c.references.items) : c.references.items[i].opened

\* The ContextInfo components the registry holds, in registration order.
Infos(items) == SelectSeq(items, LAMBDA it : it.kind = "info")

\* C13 (as claimed): when the configuration supplies a ContextInfo, Info() is
\* that ContextInfo, and not the container's own, after an Open that returns nil.
C13_ConfiguredInfoSupersedes ==
    (lastOp = "Open" /\ ret = Returned(NoErr) /\ "info" \in Range(c.config)) =>
        /\ Info(c) # OwnInfo
        /\ \E i \in 1..Len(c.references.items) :
                /\ c.references.items[i].kind = "info"
                /\ c.references.items[i].sec # 0
                /\ c.references.items[i].obj = Info(c)

\* C14 (as claimed): when a component's Open returns an error, the components
\* after it are not opened, Open returns that error, Close is called and attempts
\* to close every closeable component the registry holds, and the container is
\* closed when Open returns.
C14_OpenErrorRollsBack ==
    (lastOp = "Open" /\ plan.openAt # 0 /\ plan.openHow = "err") =>
        /\ \A i \in 1..Len(Opens(events)) : Opens(events)[i] <= plan.openAt
        /\ ret = Returned(Err("ComponentError", "open", plan.openAt))
        /\ \E k \in 1..Len(events) : events[k] = Event("Close", 0)
        /\ Range(Closes(events)) = Services(c.config, 1..Len(c.config))
        /\ ~IsOpen(c)

\* Positions of the calls of op in ev.
At(ev, op) == {k \in 1..Len(ev) : ev[k].op = op}

\* C15: an Open of a nested container that has resolved every section calls the
\* parent's SetReferences exactly once (no operation calls it twice, and an Open
\* that is rejected or stopped during the population does not reach the call);
\* the call comes after the construction of every section and before the Open of
\* any component. A Close of an opened container, the rollback Close included,
\* calls the parent's UnsetReferences, when the parent has it, first and once: no
\* component is closed before it. A container that is not nested issues neither
\* call, and a parent without UnsetReferences is not unwired.
C15_ParentWiring ==
    [][/\ Cardinality(At(events', "setRefs")) <= 1
       /\ Cardinality(At(events', "unsetRefs")) <= 1
       /\ ~c.referenceable => At(events', "setRefs") = {}
       /\ ~c.unreferenceable => At(events', "unsetRefs") = {}
       /\ (/\ lastOp' = "Open" /\ ~IsOpen(c) /\ c.referenceable
           /\ plan'.ctor = 0 /\ ret'.err.kind # "BuildError") =>
                Cardinality(At(events', "setRefs")) = 1
       /\ \A k \in At(events', "setRefs") :
            /\ Creates(SubSeq(events', 1, k - 1)) = [i \in 1..Len(c.config) |-> i]
            /\ \A j \in At(events', "create") \cup At(events', "open") :
                    j < k <=> events'[j].op = "create"
       /\ (lastOp' = "Close" /\ IsOpen(c) /\ c.unreferenceable) =>
                events'[1] = Event("unsetRefs", 0)
       /\ c.unreferenceable =>
            \A k \in At(events', "close") : \E j \in At(events', "unsetRefs") : j < k
      ]_vars

\* C15 witness: an Open of a nested container built two components, wired the
\* parent, then opened them.
C15_Witness ==
    /\ lastOp = "Open"
    /\ c.unreferenceable
    /\ events = <<Event("create", 1), Event("create", 2), Event("setRefs", 0),
                  Event("open", 1), Event("open", 2)>>

\* C16 (as claimed): an Open that passes the already-open check constructs a
\* registry that was never the container's registry before; whenever the
\* container's registry changes it becomes nil or such a new registry (a dropped
\* registry is not installed again); and an Open that follows a Close is not
\* rejected with ALREADY_OPENED.
C16_RegistryIsNeverReused ==
    [][/\ c.references.id <= created
       /\ (lastOp' = "Open" /\ ~IsOpen(c)) =>
                c'.references.id = 0 \/ c'.references.id > created
       /\ (c'.references.id # c.references.id) =>
                c'.references.id = 0 \/ c'.references.id > created
       /\ (lastOp = "Close" /\ lastOp' = "Open") => ret'.err.kind # "InvalidState"
      ]_vars

\* C17 (as claimed): after an Open that returns nil the registry holds exactly
\* one ContextInfo, which is the container's own one (registered by the container
\* itself) exactly when no section of the configuration supplies one, and the
\* container's composite factory is registered under the container-factory
\* locator.
C17_OneContextInfo ==
    (lastOp = "Open" /\ ret = Returned(NoErr)) =>
        /\ Len(Infos(c.references.items)) = 1
        /\ (Infos(c.references.items)[1].sec = 0) <=> ("info" \notin Range(c.config))
        /\ \E i \in 1..Len(c.references.items) :
                c.references.items[i] = Item("factory", 0, 0, <<c.references.id, 0>>)

Wired(cc) ==
    /\ cc.referenceable
    /\ IsOpen(cc)
    /\ Len(BuiltKinds(cc.references.items)) = Len(cc.config)

\* C19 (as claimed): every call of the parent's UnsetReferences comes after a call
\* of its SetReferences for the same registry: earlier in the same Open when the
\* call is made by the rollback Close, or in the Open that installed the registry
\* when it is made by a Close.
C19_UnsetFollowsSet ==
    [][\A k \in At(events', "unsetRefs") :
            \/ \E j \in At(events', "setRefs") : j < k
            \/ lastOp' = "Close" /\ Wired(c)
      ]_vars

\* The error that makes an Open under the plan p fail: the fault it raises, else
\* the error the Open of a component returns; NoErr when the plan has neither.
OpenFailure(p) ==
    IF OpenFault(p) # NoErr THEN OpenFault(p)
    ELSE IF p.openAt # 0 THEN Err("ComponentError", "open", p.openAt)
    ELSE NoErr

\* C20: when an Open fails with the error of a component's Open or with a
\* recovered fault, and the rollback Close meets an error of a component's Close
\* or a fault of its own, Open returns the error that made it fail: not the
\* error of the Close, and not nil.
C20_OpenReturnsOriginalError ==
    (/\ lastOp = "Open"
     /\ OpenFailure(plan) # NoErr
     /\ CloseFaults(plan) \/ plan.closeErr # 0) =>
        /\ ret = Returned(OpenFailure(plan))
        /\ ret.err.at # "close"
        /\ ret.err # NoErr

\* C20 witness: a component's Open returned an error, the rollback Close reported
\* the error of a component's Close, and Open returned the former.
C20_Witness ==
    /\ lastOp = "Open"
    /\ plan.openAt # 0 /\ plan.openHow = "err"
    /\ plan.closeErr # 0
    /\ LoggedSeverely(Err("ComponentError", "close", plan.closeErr))
    /\ ret = Returned(Err("ComponentError", "open", plan.openAt))

====
